---- MODULE Spec2Model ----
(***************************************************************************)
(* Model of the music-symbol-detector pipeline (src/music_symbol_detector  *)
(* .py, "v1", and src/music_symbol_detector_v2.py, "v2"):                  *)
(*   construct detector -> process_image -> _run_audiveris -> parse ->     *)
(*   _draw_bounding_boxes -> return.                                       *)
(* Text (paths, shape labels, attribute values) is a sequence of           *)
(* one-character strings, so that endswith, lower, `in` and int() are      *)
(* computed the way the Python code computes them.                         *)
(***************************************************************************)
EXTENDS Integers, Sequences, FiniteSets, TLC

(***************************************************************************)
(* Bounds of the model.                                                    *)
(***************************************************************************)
\* most <inter>/<head>/<key-alter> elements in one parsed XML document
MaxElems == 2
\* most <note> elements in one MusicXML document
MaxNotes == 2
\* most sheet#N directories in one .omr archive
MaxSheets == 2
\* most symbols handed to _estimate_positions
MaxSymbols == 3

\* tokens a shape label is put together from
MaxParts == 2

\* characters of the name of an image file
MaxName == 3

(***************************************************************************)
(* Python str operations.                                                  *)
(***************************************************************************)
UpperLetters ==
  <<"A","B","C","D","E","F","G","H","I","J","K","L","M",
    "N","O","P","Q","R","S","T","U","V","W","X","Y","Z">>

LowerLetters ==
  <<"a","b","c","d","e","f","g","h","i","j","k","l","m",
    "n","o","p","q","r","s","t","u","v","w","x","y","z">>

DigitChars == <<"0","1","2","3","4","5","6","7","8","9">>

\* str.lower() on one character
lower_char(c) ==
  IF \E i \in 1..26 : UpperLetters[i] = c
    THEN LowerLetters[CHOOSE i \in 1..26 : UpperLetters[i] = c]
    ELSE c

\* str.lower()
lower(s) == [i \in 1..Len(s) |-> lower_char(s[i])]

\* Python's `sub in s` on strings
Contains(sub, s) ==
  \E i \in 0..(Len(s) - Len(sub)) : \A j \in 1..Len(sub) : s[i + j] = sub[j]

\* str.endswith
endswith(s, suf) ==
  /\ Len(s) >= Len(suf)
  /\ \A j \in 1..Len(suf) : s[Len(s) - Len(suf) + j] = suf[j]

\* str.strip(): leading and trailing whitespace removed
Whitespace == {" ", "\n", "\t", "\r"}

RECURSIVE lstrip(_)
lstrip(s) == IF s # <<>> /\ s[1] \in Whitespace THEN lstrip(Tail(s)) ELSE s

RECURSIVE rstrip(_)
rstrip(s) ==
  IF s # <<>> /\ s[Len(s)] \in Whitespace
    THEN rstrip(SubSeq(s, 1, Len(s) - 1))
    ELSE s

strip(s) == rstrip(lstrip(s))

IsDigit(c) == \E i \in 1..10 : DigitChars[i] = c

DigitVal(c) == (CHOOSE i \in 1..10 : DigitChars[i] = c) - 1

\* value of a run of decimal digits, "_" separators skipped
RECURSIVE DigitsValue(_)
DigitsValue(s) ==
  IF s = <<>> THEN 0
  ELSE IF s[Len(s)] = "_" THEN DigitsValue(SubSeq(s, 1, Len(s) - 1))
  ELSE 10 * DigitsValue(SubSeq(s, 1, Len(s) - 1)) + DigitVal(s[Len(s)])

\* a digit run as int() and float() accept it: digits, single "_" between digits
IsDigitRun(s) ==
  /\ s # <<>>
  /\ IsDigit(s[1]) /\ IsDigit(s[Len(s)])
  /\ \A i \in 1..Len(s) : IsDigit(s[i]) \/ s[i] = "_"
  /\ \A i \in 1..(Len(s) - 1) : ~(s[i] = "_" /\ s[i + 1] = "_")

HasSign(s) == s # <<>> /\ s[1] \in {"+", "-"}

Unsigned(s) == IF HasSign(s) THEN Tail(s) ELSE s

Signed(s, n) == IF s # <<>> /\ s[1] = "-" THEN 0 - n ELSE n

\* int(text): [ok |-> TRUE, val |-> n], or [ok |-> FALSE] where Python raises
\* ValueError
int_of(text) ==
  LET s == strip(text)
      body == Unsigned(s)
  IN  IF IsDigitRun(body)
        THEN [ok |-> TRUE, val |-> Signed(s, DigitsValue(body))]
        ELSE [ok |-> FALSE]

\* position of the first "." of s, 0 when there is none
DotAt(s) ==
  IF \E i \in 1..Len(s) : s[i] = "."
    THEN CHOOSE i \in 1..Len(s) : s[i] = "." /\ \A j \in 1..(i - 1) : s[j] # "."
    ELSE 0

RECURSIVE Pow10(_)
Pow10(k) == IF k = 0 THEN 1 ELSE 10 * Pow10(k - 1)

\* number of digits of a digit run, "_" separators not counted
NumDigits(s) == Cardinality({i \in 1..Len(s) : IsDigit(s[i])})

\* float(text) for decimal literals [sign] digits [ "." digits ]: the value is
\* num / den; [ok |-> FALSE] where Python raises ValueError.  Exponent, inf
\* and nan literals are outside the alphabet of AlterTexts.
float_of(text) ==
  LET s == strip(text)
      body == Unsigned(s)
      d == DotAt(body)
      ip == IF d = 0 THEN body ELSE SubSeq(body, 1, d - 1)
      fp == IF d = 0 THEN <<>> ELSE SubSeq(body, d + 1, Len(body))
      okInt == ip = <<>> \/ IsDigitRun(ip)
      okFrac == fp = <<>> \/ IsDigitRun(fp)
  IN  IF okInt /\ okFrac /\ (ip # <<>> \/ fp # <<>>)
        THEN [ok |-> TRUE,
              num |-> Signed(s, DigitsValue(ip) * Pow10(NumDigits(fp)) + DigitsValue(fp)),
              den |-> Pow10(NumDigits(fp))]
        ELSE [ok |-> FALSE]

(***************************************************************************)
(* Literals of the source.                                                 *)
(***************************************************************************)
S_sharp == <<"s","h","a","r","p">>
S_flat == <<"f","l","a","t">>
S_natural == <<"n","a","t","u","r","a","l">>
S_notehead == <<"n","o","t","e","h","e","a","d">>
S_head == <<"h","e","a","d">>
S_SHARP == <<"S","H","A","R","P">>
S_FLAT == <<"F","L","A","T">>
S_NATURAL == <<"N","A","T","U","R","A","L">>
S_NOTEHEAD == <<"N","O","T","E","H","E","A","D">>

\* keys of TARGET_SYMBOLS
TARGET_SYMBOLS == {"sharp", "flat", "natural", "notehead"}

\* int(bounds.get('w', 20)), int(bounds.get('h', 20))
DefaultSize == 20

\* _estimate_positions: 100 + i * 50, 100, 120 + i * 50, 120
EstimateOrigin == 100
EstimateStep == 50
EstimateFar == 120

\* no symbol type: Python's None
NoType == "None"

(***************************************************************************)
(* XML elements.  An element is a record with a tag; an attribute or child *)
(* that the element lacks is a field the record lacks.                     *)
(*   <bounds x= y= w= h=/>  [tag |-> "bounds", x |-> text, ...]            *)
(*   <inter shape=>         [tag |-> "inter", shape |-> text, bounds |-> b]*)
(***************************************************************************)
Has(e, f) == f \in DOMAIN e

\* inter.get('shape', '')
shape_of(e) == IF Has(e, "shape") THEN e.shape ELSE <<>>

\* int(bounds.get(name, default)): the default is already an int
int_attr(bounds, name, default) ==
  IF Has(bounds, name) THEN int_of(bounds[name]) ELSE [ok |-> TRUE, val |-> default]

\* x, y, w, h of a <bounds> element and the bbox (x, y, x + w, y + h) built
\* from them; [ok |-> FALSE] when one of the four int() calls raises
bounds_bbox(bounds) ==
  LET x == int_attr(bounds, "x", 0)
      y == int_attr(bounds, "y", 0)
      w == int_attr(bounds, "w", DefaultSize)
      h == int_attr(bounds, "h", DefaultSize)
  IN  IF x.ok /\ y.ok /\ w.ok /\ h.ok
        THEN [ok |-> TRUE, bbox |-> <<x.val, y.val, x.val + w.val, y.val + h.val>>]
        ELSE [ok |-> FALSE]

(***************************************************************************)
(* Shape classification.                                                   *)
(***************************************************************************)
\* variant: 'flat' tested before 'sharp'
classify_symbol_flat_first(shape) ==
  LET shape_lower == lower(shape)
  IN  IF Contains(S_flat, shape_lower) THEN "flat"
      ELSE IF Contains(S_sharp, shape_lower) THEN "sharp"
      ELSE IF Contains(S_natural, shape_lower) THEN "natural"
      ELSE IF Contains(S_notehead, shape_lower) \/ Contains(S_head, shape_lower)
        THEN "notehead"
      ELSE NoType

\* v2 _classify_symbol
classify_symbol(shape) ==
  LET shape_lower == lower(shape)
  IN  IF Contains(S_sharp, shape_lower) THEN "sharp"
      ELSE IF Contains(S_flat, shape_lower) THEN "flat"
      ELSE IF Contains(S_natural, shape_lower) THEN "natural"
      ELSE IF Contains(S_notehead, shape_lower) \/ Contains(S_head, shape_lower)
        THEN "notehead"
      ELSE NoType

\* v1 _parse_omr_book, the inline classification of an <inter>
book_symbol_type(shape) ==
  LET shape_lower == lower(shape)
  IN  IF Contains(S_sharp, shape_lower) THEN "sharp"
      ELSE IF Contains(S_flat, shape_lower) THEN "flat"
      ELSE IF Contains(S_natural, shape_lower) THEN "natural"
      ELSE IF Contains(S_notehead, shape_lower) \/ Contains(S_head, shape_lower)
        THEN "notehead"
      ELSE NoType

(***************************************************************************)
(* v1 _parse_omr_book.  A book file is [wellformed |-> BOOLEAN,            *)
(* inters |-> the <inter> elements in document order].                     *)
(***************************************************************************)
\* one <inter> of the loop: "skip" (no record), "record", or "raise"
book_inter(inter) ==
  LET shape == shape_of(inter)
      symbol_type == book_symbol_type(shape)
  IN  IF symbol_type = NoType \/ ~Has(inter, "bounds")
        THEN [kind |-> "skip"]
        ELSE LET b == bounds_bbox(inter.bounds)
             IN  IF b.ok
                   THEN [kind |-> "record",
                         rec |-> [type |-> symbol_type, bbox |-> b.bbox, shape |-> shape]]
                   ELSE [kind |-> "raise"]

\* the for loop: an exception leaves the loop with the records appended so far
RECURSIVE book_loop(_, _)
book_loop(inters, symbols) ==
  IF inters = <<>> THEN symbols
  ELSE LET r == book_inter(Head(inters))
       IN  IF r.kind = "raise" THEN symbols
           ELSE IF r.kind = "record"
             THEN book_loop(Tail(inters), Append(symbols, r.rec))
           ELSE book_loop(Tail(inters), symbols)

parse_omr_book(book_file) ==
  IF ~book_file.wellformed THEN <<>> ELSE book_loop(book_file.inters, <<>>)

(***************************************************************************)
(* v2 _parse_sheet_xml and _parse_omr_file.  A sheet XML is                *)
(* [wellformed, inters_section |-> BOOLEAN, elems |-> the elements under   *)
(* <sig><inters> in document order]; an archive is [readable |-> BOOLEAN,  *)
(* sheets |-> the sheet#N directories], a directory being                  *)
(* [has_xml |-> BOOLEAN, xml |-> sheet XML].                               *)
(***************************************************************************)
WithTag(elems, tag) == SelectSeq(elems, LAMBDA e : e.tag = tag)

\* variant: the filter applied to the lower-cased shape
inter_filter_any_case(shape) ==
  \/ Contains(S_sharp, lower(shape))
  \/ Contains(S_flat, lower(shape))
  \/ Contains(S_natural, lower(shape))

\* 'SHARP' in shape or 'FLAT' in shape or 'NATURAL' in shape
inter_filter(shape) ==
  Contains(S_SHARP, shape) \/ Contains(S_FLAT, shape) \/ Contains(S_NATURAL, shape)

\* one element of one of the three loops
sheet_elem(e) ==
  IF ~Has(e, "bounds") THEN [kind |-> "skip"]
  ELSE IF e.tag = "head"
    THEN LET b == bounds_bbox(e.bounds)
         IN  IF b.ok
               THEN [kind |-> "record",
                     rec |-> [type |-> "notehead", bbox |-> b.bbox,
                              shape |-> IF Has(e, "shape") THEN e.shape ELSE S_NOTEHEAD]]
               ELSE [kind |-> "raise"]
  ELSE IF e.tag = "inter" /\ ~inter_filter(shape_of(e)) THEN [kind |-> "skip"]
  ELSE LET symbol_type == classify_symbol(shape_of(e))
       IN  IF symbol_type = NoType THEN [kind |-> "skip"]
           ELSE LET b == bounds_bbox(e.bounds)
                IN  IF b.ok
                      THEN [kind |-> "record",
                            rec |-> [type |-> symbol_type, bbox |-> b.bbox,
                                     shape |-> shape_of(e)]]
                      ELSE [kind |-> "raise"]

RECURSIVE sheet_loop(_, _)
sheet_loop(work, symbols) ==
  IF work = <<>> THEN symbols
  ELSE LET r == sheet_elem(Head(work))
       IN  IF r.kind = "raise" THEN symbols
           ELSE IF r.kind = "record"
             THEN sheet_loop(Tail(work), Append(symbols, r.rec))
           ELSE sheet_loop(Tail(work), symbols)

\* the three loops run one after the other: heads, key-alters, inters
sheet_work(elems) ==
  WithTag(elems, "head") \o WithTag(elems, "key-alter") \o WithTag(elems, "inter")

\* variant: symbols reset to [] in the except clause
parse_sheet_xml_all_or_nothing(sheet_xml) ==
  IF ~sheet_xml.wellformed THEN <<>>
  ELSE IF ~sheet_xml.inters_section THEN <<>>
  ELSE IF \E k \in 1..Len(sheet_work(sheet_xml.elems)) :
            sheet_elem(sheet_work(sheet_xml.elems)[k]).kind = "raise"
    THEN <<>>
  ELSE sheet_loop(sheet_work(sheet_xml.elems), <<>>)

parse_sheet_xml(sheet_xml) ==
  IF ~sheet_xml.wellformed THEN <<>>
  ELSE IF ~sheet_xml.inters_section THEN <<>>
  ELSE sheet_loop(sheet_work(sheet_xml.elems), <<>>)

RECURSIVE sheets_loop(_, _)
sheets_loop(sheet_dirs, symbols) ==
  IF sheet_dirs = <<>> THEN symbols
  ELSE LET d == Head(sheet_dirs)
       IN  sheets_loop(Tail(sheet_dirs),
                       IF d.has_xml THEN symbols \o parse_sheet_xml(d.xml) ELSE symbols)

parse_omr_file(omr) ==
  IF ~omr.readable THEN <<>> ELSE sheets_loop(omr.sheets, <<>>)

(***************************************************************************)
(* v1 _estimate_positions, _parse_alternative and the MusicXML loop of     *)
(* _parse_omr_output.  A MusicXML file is [wellformed, notes]; a <note> is *)
(* [tag, pitch |-> [tag, alter |-> [tag, text]], accidental |-> [tag,      *)
(* text]], each child and each text optional.                              *)
(***************************************************************************)
\* variant: the intermediate records handed on as they are
estimate_positions_passthrough(symbols) == symbols

\* variant: enumerate counted from 1
estimate_positions_from_one(symbols) ==
  [k \in 1..Len(symbols) |->
     [type |-> symbols[k].type,
      bbox |-> <<EstimateOrigin + k * EstimateStep, EstimateOrigin,
                 EstimateFar + k * EstimateStep, EstimateFar>>,
      estimated |-> TRUE]]

estimate_positions(symbols) ==
  [k \in 1..Len(symbols) |->
     [type |-> symbols[k].type,
      bbox |-> <<EstimateOrigin + (k - 1) * EstimateStep, EstimateOrigin,
                 EstimateFar + (k - 1) * EstimateStep, EstimateFar>>,
      estimated |-> TRUE]]

parse_alternative == <<>>

\* the records one <note> appends, the note being the n-th of the document;
\* [ok |-> FALSE] when float(alter.text) or accidental.text.lower() raises
note_symbols(note, n) ==
  LET alterRaises ==
        /\ Has(note, "pitch") /\ Has(note.pitch, "alter")
        /\ (~Has(note.pitch.alter, "text") \/ ~float_of(note.pitch.alter.text).ok)
      accRaises == Has(note, "accidental") /\ ~Has(note.accidental, "text")
      fromAlter ==
        IF Has(note, "pitch") /\ Has(note.pitch, "alter")
          THEN LET alter_value == float_of(note.pitch.alter.text)
               IN  IF alter_value.num = alter_value.den
                     THEN <<[type |-> "sharp", element |-> n]>>
                   ELSE IF alter_value.num = 0 - alter_value.den
                     THEN <<[type |-> "flat", element |-> n]>>
                   ELSE IF alter_value.num = 0
                     THEN <<[type |-> "natural", element |-> n]>>
                   ELSE <<>>
          ELSE <<>>
      fromPitch ==
        IF Has(note, "pitch")
          THEN fromAlter \o <<[type |-> "notehead", element |-> n]>>
          ELSE <<>>
      fromAccidental ==
        IF Has(note, "accidental")
          THEN LET acc_type == lower(note.accidental.text)
               IN  IF Contains(S_sharp, acc_type)
                     THEN <<[type |-> "sharp", element |-> n]>>
                   ELSE IF Contains(S_flat, acc_type)
                     THEN <<[type |-> "flat", element |-> n]>>
                   ELSE IF Contains(S_natural, acc_type)
                     THEN <<[type |-> "natural", element |-> n]>>
                   ELSE <<>>
          ELSE <<>>
  IN  IF alterRaises \/ accRaises THEN [ok |-> FALSE]
      ELSE [ok |-> TRUE, symbols |-> fromPitch \o fromAccidental]

\* the loop over root.findall('.//note'): the symbols, or ok = FALSE when a
\* note raises
RECURSIVE notes_loop(_, _, _)
notes_loop(notes, n, symbols) ==
  IF n > Len(notes) THEN [ok |-> TRUE, symbols |-> symbols]
  ELSE LET r == note_symbols(notes[n], n)
       IN  IF r.ok THEN notes_loop(notes, n + 1, symbols \o r.symbols)
           ELSE [ok |-> FALSE]

\* variant: an empty book result falls back to the estimated positions
parse_omr_output_empty_book_estimates(musicxml, has_book, book_file) ==
  LET r == IF musicxml.wellformed THEN notes_loop(musicxml.notes, 1, <<>>)
           ELSE [ok |-> FALSE]
  IN  IF ~r.ok THEN [symbols |-> parse_alternative, branch |-> "alternative"]
      ELSE IF has_book /\ parse_omr_book(book_file) # <<>>
        THEN [symbols |-> parse_omr_book(book_file), branch |-> "book"]
      ELSE [symbols |-> estimate_positions(r.symbols), branch |-> "estimated"]

\* v1 _parse_omr_output on the files the recognizer left: the MusicXML file
\* omr_file, and the book file next to it when has_book.  branch names the
\* assignment to symbols that produced the returned list.
parse_omr_output(musicxml, has_book, book_file) ==
  LET r == IF musicxml.wellformed THEN notes_loop(musicxml.notes, 1, <<>>)
           ELSE [ok |-> FALSE]
  IN  IF ~r.ok THEN [symbols |-> parse_alternative, branch |-> "alternative"]
      ELSE IF has_book
        THEN [symbols |-> parse_omr_book(book_file), branch |-> "book"]
      ELSE [symbols |-> estimate_positions(r.symbols), branch |-> "estimated"]

(***************************************************************************)
(* pathlib.Path on normalised POSIX paths (no "//", no "." or ".."         *)
(* component, no trailing "/").                                            *)
(***************************************************************************)
\* index of the last occurrence of the character c in s, 0 when there is none
LastIndex(s, c) ==
  IF \E i \in 1..Len(s) : s[i] = c
    THEN CHOOSE i \in 1..Len(s) : s[i] = c /\ \A j \in (i + 1)..Len(s) : s[j] # c
    ELSE 0

\* Path.parent
path_parent(p) ==
  LET i == LastIndex(p, "/")
  IN  IF i = 0 THEN <<".">> ELSE IF i = 1 THEN <<"/">> ELSE SubSeq(p, 1, i - 1)

\* Path.name
path_name(p) == SubSeq(p, LastIndex(p, "/") + 1, Len(p))

\* Path.suffix: from the last "." of the name, unless the name starts or ends
\* with it
path_suffix(p) ==
  LET name == path_name(p)
      i == LastIndex(name, ".")
  IN  IF 1 < i /\ i < Len(name) THEN SubSeq(name, i, Len(name)) ELSE <<>>

\* Path.stem
path_stem(p) ==
  LET name == path_name(p)
      i == LastIndex(name, ".")
  IN  IF 1 < i /\ i < Len(name) THEN SubSeq(name, 1, i - 1) ELSE name

\* parent / child
path_join(parent, child) ==
  IF parent = <<".">> THEN child
  ELSE IF parent = <<"/">> THEN <<"/">> \o child
  ELSE parent \o <<"/">> \o child

S_audiveris_output ==
  <<"a","u","d","i","v","e","r","i","s","_","o","u","t","p","u","t">>

S_detected == <<"_","d","e","t","e","c","t","e","d">>
S_dot_jar == <<".","j","a","r">>
S_dot_mxl == <<".","m","x","l">>
S_dot_xml == <<".","x","m","l">>
S_dot_omr == <<".","o","m","r">>
S_java == <<"j","a","v","a">>
S_dash_jar == <<"-","j","a","r">>
S_dash_batch == <<"-","b","a","t","c","h">>
S_dash_export == <<"-","e","x","p","o","r","t">>
S_dash_output == <<"-","o","u","t","p","u","t">>

\* image_path.parent / "audiveris_output"
output_dir_of(image_path) == path_join(path_parent(image_path), S_audiveris_output)

\* variant: the output named like the image
default_output_path_same_name(image_path) ==
  path_join(path_parent(image_path), path_stem(image_path) \o path_suffix(image_path))

\* image_path.parent / f"{image_path.stem}_detected{image_path.suffix}"
default_output_path(image_path) ==
  path_join(path_parent(image_path),
            path_stem(image_path) \o S_detected \o path_suffix(image_path))

\* v1: output_dir / project_name / f"{project_name}<ext>"
project_file(image_path, ext) ==
  path_join(path_join(output_dir_of(image_path), path_stem(image_path)),
            path_stem(image_path) \o ext)

\* v2: output_dir / f"{image_path.stem}.omr"
omr_file_v2(image_path) ==
  path_join(output_dir_of(image_path), path_stem(image_path) \o S_dot_omr)

\* v1 _parse_omr_output: omr_dir / f"{omr_dir.name}.omr", omr_dir = omr_file.parent
book_file_of(omr_file) ==
  path_join(path_parent(omr_file), path_name(path_parent(omr_file)) \o S_dot_omr)

(***************************************************************************)
(* Locating the recognizer (v1 __init__, _find_audiveris).                 *)
(***************************************************************************)
\* Python's None where a path is expected; "" is <<>>
None == <<"None">>

\* truth value of a str-or-None
Truthy(s) == s # None /\ s # <<>>

\* os.path.expanduser('~')
HomeDir == <<"/","h">>

Cand_app ==
  <<"/","A","p","p","l","i","c","a","t","i","o","n","s","/","A","u","d","i",
    "v","e","r","i","s",".","a","p","p","/","C","o","n","t","e","n","t","s",
    "/","M","a","c","O","S","/","A","u","d","i","v","e","r","i","s">>

Cand_usr_local ==
  <<"/","u","s","r","/","l","o","c","a","l","/","b","i","n","/","a","u","d",
    "i","v","e","r","i","s">>

Cand_relative == <<"a","u","d","i","v","e","r","i","s">>

Cand_home_jar ==
  HomeDir \o
  <<"/","A","u","d","i","v","e","r","i","s","/","b","u","i","l","d","/","l",
    "i","b","s","/","A","u","d","i","v","e","r","i","s","-","*",".","j","a",
    "r">>

\* possible_paths, in list order
possible_paths == <<Cand_app, Cand_usr_local, Cand_relative, Cand_home_jar>>

\* variant: the last existing candidate wins
find_audiveris_last_match(existing, which) ==
  IF \E i \in 1..Len(possible_paths) : possible_paths[i] \in existing
    THEN possible_paths[CHOOSE i \in 1..Len(possible_paths) :
                          /\ possible_paths[i] \in existing
                          /\ \A j \in (i + 1)..Len(possible_paths) :
                                possible_paths[j] \notin existing]
  ELSE IF ~which.raised /\ which.returncode = 0 THEN strip(which.stdout)
  ELSE None

\* _find_audiveris.  existing: the paths for which os.path.exists is true;
\* which: the outcome of subprocess.run(['which', 'audiveris']), either
\* [raised |-> TRUE] or [raised |-> FALSE, returncode, stdout]
find_audiveris(existing, which) ==
  IF \E i \in 1..Len(possible_paths) : possible_paths[i] \in existing
    THEN possible_paths[CHOOSE i \in 1..Len(possible_paths) :
                          /\ possible_paths[i] \in existing
                          /\ \A j \in 1..(i - 1) : possible_paths[j] \notin existing]
  ELSE IF ~which.raised /\ which.returncode = 0 THEN strip(which.stdout)
  ELSE None

\* __init__: v1 audiveris_path or self._find_audiveris(); v2 audiveris_path
init_audiveris_path(ver, arg, existing, which) ==
  IF ver = 1
    THEN IF Truthy(arg) THEN arg ELSE find_audiveris(existing, which)
    ELSE arg

(***************************************************************************)
(* Command assembly (_run_audiveris).                                      *)
(***************************************************************************)
\* the arguments both branches of v1, and v2, end with
batch_args(image_path) ==
  <<S_dash_batch, S_dash_export, S_dash_output, output_dir_of(image_path), image_path>>

\* variant: '.jar' in path instead of path.endswith('.jar')
audiveris_cmd_jar_anywhere(ver, path, image_path) ==
  IF ver = 1 /\ Contains(S_dot_jar, path)
    THEN <<S_java, S_dash_jar, path>> \o batch_args(image_path)
    ELSE <<path>> \o batch_args(image_path)

audiveris_cmd(ver, path, image_path) ==
  IF ver = 1 /\ endswith(path, S_dot_jar)
    THEN <<S_java, S_dash_jar, path>> \o batch_args(image_path)
    ELSE <<path>> \o batch_args(image_path)

(***************************************************************************)
(* Input sets.                                                             *)
(***************************************************************************)
\* <bounds> elements: all four attributes; none (the defaults apply); a
\* negative width; a negative height; a width that is no integer literal
B_full == [tag |-> "bounds", x |-> <<"1","0">>, y |-> <<"3">>, w |-> <<"4">>, h |-> <<"2">>]
B_defaults == [tag |-> "bounds"]
B_neg_w == [tag |-> "bounds", x |-> <<"1","0">>, w |-> <<"-","5">>]
B_neg_h == [tag |-> "bounds", y |-> <<" ","7">>, h |-> <<"-","2">>]
B_bad_w == [tag |-> "bounds", x |-> <<"1","0">>, y |-> <<"3">>, w |-> <<"4",".","5">>]

L_SHARP == S_SHARP
L_flat == S_flat
L_NOTEHEAD_BLACK == <<"N","O","T","E","H","E","A","D","_","B","L","A","C","K">>
L_CLEF == <<"C","L","E","F">>

\* shape labels: up to MaxParts tokens one after the other
ShapeTokens ==
  {S_SHARP, S_flat, <<"N","a","t","u","r","a","l">>, <<"H","E","A","D">>, S_NOTEHEAD,
   L_CLEF, <<"_">>}

RECURSIVE Concat(_)
Concat(parts) == IF parts = <<>> THEN <<>> ELSE Head(parts) \o Concat(Tail(parts))

\* the elements with a given tag: with or without shape, with or without
\* <bounds>
ElemsOf(tag, shapes, bounds) ==
  {[tag |-> tag]}
  \cup {[tag |-> tag, shape |-> s] : s \in shapes}
  \cup {[tag |-> tag, bounds |-> b] : b \in bounds}
  \cup {[tag |-> tag, shape |-> s, bounds |-> b] : s \in shapes, b \in bounds}

\* sequences over S of length at most n
SeqUpTo(S, n) == UNION {[1..k -> S] : k \in 0..n}

ShapeLabels == {Concat(q) : q \in SeqUpTo(ShapeTokens, MaxParts)}

\* <inter> elements of a v1 book file
BookInters ==
  ElemsOf("inter", {L_SHARP, L_flat, L_NOTEHEAD_BLACK, L_CLEF},
          {B_full, B_defaults, B_neg_w, B_bad_w})

BookFiles ==
  {[kind |-> "book", wellformed |-> FALSE, inters |-> <<>>]}
  \cup {[kind |-> "book", wellformed |-> TRUE, inters |-> q] :
          q \in SeqUpTo(BookInters, MaxElems)}

\* elements under <sig><inters> of a v2 sheet
SheetElems ==
  ElemsOf("head", {L_NOTEHEAD_BLACK}, {B_full, B_bad_w})
  \cup ElemsOf("key-alter", {L_SHARP, L_CLEF}, {B_defaults, B_bad_w})
  \cup ElemsOf("inter", {L_SHARP, L_flat, L_NOTEHEAD_BLACK}, {B_neg_h, B_bad_w})

SheetXmls ==
  {[wellformed |-> FALSE, inters_section |-> FALSE, elems |-> <<>>],
   [wellformed |-> TRUE, inters_section |-> FALSE, elems |-> <<>>]}
  \cup {[wellformed |-> TRUE, inters_section |-> TRUE, elems |-> q] :
          q \in SeqUpTo(SheetElems, MaxElems)}

\* <note> elements of a MusicXML file: a sharpened pitch, a plain pitch, a
\* flat given by <accidental> alone, an <alter> that is no number, an empty
\* <accidental/>
N_alter_sharp ==
  [tag |-> "note",
   pitch |-> [tag |-> "pitch", alter |-> [tag |-> "alter", text |-> <<"1">>]]]
N_plain == [tag |-> "note", pitch |-> [tag |-> "pitch"]]
N_acc_flat ==
  [tag |-> "note", accidental |-> [tag |-> "accidental", text |-> <<"f","l","a","t","-","f","l","a","t">>]]
N_alter_natural ==
  [tag |-> "note",
   pitch |-> [tag |-> "pitch", alter |-> [tag |-> "alter", text |-> <<"0",".","0">>]],
   accidental |-> [tag |-> "accidental", text |-> <<"N","a","t","u","r","a","l">>]]
N_bad_alter ==
  [tag |-> "note",
   pitch |-> [tag |-> "pitch", alter |-> [tag |-> "alter", text |-> <<"u","p">>]]]
N_empty_acc ==
  [tag |-> "note", pitch |-> [tag |-> "pitch"], accidental |-> [tag |-> "accidental"]]

NoteSet == {N_alter_sharp, N_plain, N_acc_flat, N_alter_natural, N_bad_alter, N_empty_acc}

MusicXmlFiles ==
  {[kind |-> "musicxml", wellformed |-> FALSE, notes |-> <<>>]}
  \cup {[kind |-> "musicxml", wellformed |-> TRUE, notes |-> q] :
          q \in SeqUpTo(NoteSet, MaxNotes)}

\* book files the recognizer leaves in a pipeline run
I_sharp == [tag |-> "inter", shape |-> L_SHARP, bounds |-> B_full]
I_head_neg == [tag |-> "inter", shape |-> L_NOTEHEAD_BLACK, bounds |-> B_neg_w]
I_flat_bad == [tag |-> "inter", shape |-> L_flat, bounds |-> B_bad_w]
I_clef == [tag |-> "inter", shape |-> L_CLEF, bounds |-> B_full]

RunBookFiles ==
  {[kind |-> "book", wellformed |-> FALSE, inters |-> <<>>]}
  \cup {[kind |-> "book", wellformed |-> TRUE, inters |-> q] :
          q \in SeqUpTo({I_sharp, I_head_neg, I_flat_bad}, MaxElems)}

\* MusicXML exports the recognizer leaves in a pipeline run
RunMusicXmlFiles ==
  {[kind |-> "musicxml", wellformed |-> FALSE, notes |-> <<>>]}
  \cup {[kind |-> "musicxml", wellformed |-> TRUE, notes |-> q] :
          q \in SeqUpTo({N_alter_sharp, N_acc_flat, N_bad_alter}, MaxNotes)}

\* sheet#N directories of the .omr archive the recognizer leaves in a
\* pipeline run
H_full == [tag |-> "head", shape |-> L_NOTEHEAD_BLACK, bounds |-> B_full]
H_bad == [tag |-> "head", bounds |-> B_bad_w]
K_sharp == [tag |-> "key-alter", shape |-> L_SHARP, bounds |-> B_defaults]
J_flat_neg == [tag |-> "inter", shape |-> <<"F","L","A","T">>, bounds |-> B_neg_h]

SheetOf(elems) == [wellformed |-> TRUE, inters_section |-> TRUE, elems |-> elems]

D_two == [has_xml |-> TRUE, xml |-> SheetOf(<<K_sharp, H_full>>)]
D_partial == [has_xml |-> TRUE, xml |-> SheetOf(<<H_full, H_bad, K_sharp>>)]
D_inverted == [has_xml |-> TRUE, xml |-> SheetOf(<<J_flat_neg>>)]
D_malformed ==
  [has_xml |-> TRUE, xml |-> [wellformed |-> FALSE, inters_section |-> FALSE, elems |-> <<>>]]
D_no_inters ==
  [has_xml |-> TRUE, xml |-> [wellformed |-> TRUE, inters_section |-> FALSE, elems |-> <<>>]]
D_no_xml == [has_xml |-> FALSE, xml |-> SheetOf(<<>>)]

SheetDirs == {D_two, D_partial, D_inverted, D_malformed, D_no_inters, D_no_xml}

OmrArchives ==
  {[kind |-> "omr", readable |-> FALSE, sheets |-> <<>>]}
  \cup {[kind |-> "omr", readable |-> TRUE, sheets |-> q] :
          q \in SeqUpTo(SheetDirs, MaxSheets)}

\* recognizer paths, image paths, output paths
P_audiveris == <<"/","o","/","a","u","d","i","v","e","r","i","s">>
P_jar == <<"/","o","/","a",".","j","a","r">>
P_jar_dir == <<"/","o","/","a",".","j","a","r","/","r","u","n">>
P_png == <<"d","/","s",".","p","n","g">>
P_bare == <<"s","c","a","n">>
P_out == <<"d","/","o",".","p","n","g">>

\* image paths: a directory part, then a name of up to MaxName characters
\* that is neither "." nor ".."
PathParents == {<<>>, <<"/">>, <<"d","/">>, <<"d",".","x","/">>}

PathNames ==
  SeqUpTo({"s", ".", "_"}, MaxName) \ {<<>>, <<".">>, <<".",".">>}

PathInputs == {d \o n : d \in PathParents, n \in PathNames}

\* outcomes of `which audiveris`
WhichOutcomes ==
  {[raised |-> TRUE, returncode |-> 1, stdout |-> <<>>],
   [raised |-> FALSE, returncode |-> 1, stdout |-> <<>>],
   [raised |-> FALSE, returncode |-> 0, stdout |-> <<"/","w","/","a","u","d","i","v","e","r","i","s","\n">>],
   [raised |-> FALSE, returncode |-> 0, stdout |-> <<"/","w","/","a",".","j","a","r","\n">>]}

(***************************************************************************)
(* State.                                                                  *)
(***************************************************************************)
VARIABLES
  version,         \* 1: music_symbol_detector.py, 2: music_symbol_detector_v2.py
  ctor_arg,        \* the audiveris_path argument of __init__
  existing,        \* candidate paths for which os.path.exists is true
  which,           \* what `which audiveris` does in this environment
  image_path,      \* the image_path argument of process_image
  pc,              \* position of the run
  audiveris_path,  \* self.audiveris_path
  searched,        \* __init__ called _find_audiveris
  output_path,     \* process_image's output_path
  files,           \* the file system: path -> content
  dirs,            \* directories made by the run
  cmd,             \* the command handed to subprocess.run
  launched,        \* recognizer processes started
  proc,            \* how the recognizer process ended
  omr_file,        \* what _run_audiveris returned
  symbols,         \* what the parse step returned
  branch,          \* the assignment of the parse step that produced symbols
  err,             \* the exception that left process_image
  returned,        \* what process_image returned
  summary,         \* what process_image printed after drawing
  log,             \* the steps of process_image that have returned, in order
  p_input,         \* parser harness: the function and its argument
  p_result,        \* parser harness: the value returned
  p_done           \* parser harness: the function has been applied

env == <<version, ctor_arg, existing, which, image_path>>
harness == <<p_input, p_result, p_done>>
run == <<pc, audiveris_path, searched, output_path, files, dirs, cmd, launched, proc,
         omr_file, symbols, branch, err, returned, summary, log>>
vars == <<env, run, harness>>

\* the content of an image file: the boxes drawn on it, and the banner text
\* count when there is one
BlankImage == [kind |-> "image", boxes |-> <<>>, banners |-> <<>>]

\* the file system with the entries (pairs <<path, content>>) written
WriteAll(fs, entries) ==
  [q \in DOMAIN fs \cup {e[1] : e \in entries} |->
     IF \E e \in entries : e[1] = q
       THEN (CHOOSE e \in entries : e[1] = q)[2]
       ELSE fs[q]]

NoHarness == [fn |-> "none"]

\* subprocess.run(cmd, timeout=300): TimeoutExpired, or a return code
ProcOutcomes ==
  {[state |-> "timeout", returncode |-> 0],
   [state |-> "exited", returncode |-> 0],
   [state |-> "exited", returncode |-> 1]}

NotStarted == [state |-> "none", returncode |-> 0]

\* what the recognizer process may leave in audiveris_output, whatever its
\* exit: v1 a MusicXML export (.mxl or .xml) and a book file, v2 an archive
RecognizerOutputs(ver, image) ==
  IF ver = 1
    THEN LET mxl == project_file(image, S_dot_mxl)
             xml == project_file(image, S_dot_xml)
             book == book_file_of(mxl)
         IN  {m \cup b :
                m \in {{}} \cup {{<<mxl, x>>} : x \in RunMusicXmlFiles}
                          \cup {{<<xml, x>>} : x \in RunMusicXmlFiles},
                b \in {{}} \cup {{<<book, x>>} : x \in RunBookFiles}}
    ELSE {{}} \cup {{<<omr_file_v2(image), x>>} : x \in OmrArchives}

(***************************************************************************)
(* process_image: the order of its three calls and its return.             *)
(***************************************************************************)
\* variant: _draw_bounding_boxes called before the parse step
process_image_steps_draw_first == <<"run_audiveris", "draw", "parse", "return">>

process_image_steps == <<"run_audiveris", "parse", "draw", "return">>

\* where process_image goes when the step s has returned
step_after(s) ==
  LET i == CHOOSE k \in 1..Len(process_image_steps) : process_image_steps[k] = s
  IN  IF i = Len(process_image_steps) THEN "done" ELSE process_image_steps[i + 1]

\* before the detector is constructed
RunInit(versions, ctor_args, existings, whichs, images, present) ==
  /\ version \in versions
  /\ ctor_arg \in ctor_args
  /\ existing \in existings
  /\ which \in whichs
  /\ image_path \in images
  /\ pc = "new"
  /\ audiveris_path = None
  /\ searched = FALSE
  /\ output_path = None
  /\ \E there \in present :
       files = [q \in (IF there THEN {image_path} ELSE {}) |-> BlankImage]
  /\ dirs = {}
  /\ cmd = <<>>
  /\ launched = 0
  /\ proc = NotStarted
  /\ omr_file = None
  /\ symbols = <<>>
  /\ branch = "none"
  /\ err = "none"
  /\ returned = None
  /\ summary = [total |-> 0, counts |-> {}]
  /\ log = <<>>

\* the parser harness unused
HarnessIdle ==
  /\ p_input = NoHarness
  /\ p_result = <<>>
  /\ p_done = FALSE

\* MusicSymbolDetector(audiveris_path=ctor_arg)
Construct ==
  /\ pc = "new"
  /\ audiveris_path' = init_audiveris_path(version, ctor_arg, existing, which)
  /\ searched' = (version = 1 /\ ~Truthy(ctor_arg))
  /\ pc' = "constructed"
  /\ UNCHANGED <<env, harness, output_path, files, dirs, cmd, launched, proc,
                 omr_file, symbols, branch, err, returned, summary, log>>

\* process_image(image_path, output_arg) up to the call of _run_audiveris
ProcessImage ==
  /\ pc = "constructed"
  /\ \E output_arg \in {None, P_out} :
       IF image_path \notin DOMAIN files
         THEN /\ err' = "FileNotFoundError"
              /\ pc' = "failed"
              /\ UNCHANGED output_path
         ELSE /\ output_path' = IF output_arg = None
                                  THEN default_output_path(image_path)
                                  ELSE output_arg
              /\ pc' = process_image_steps[1]
              /\ UNCHANGED err
  /\ UNCHANGED <<env, harness, audiveris_path, searched, files, dirs, cmd, launched, proc,
                 omr_file, symbols, branch, returned, summary, log>>

\* _run_audiveris up to subprocess.run: the path check, mkdir, the command
StartAudiveris ==
  /\ pc = "run_audiveris"
  /\ IF ~Truthy(audiveris_path)
       THEN /\ err' = "RuntimeError"
            /\ pc' = "failed"
            /\ UNCHANGED <<dirs, cmd, launched>>
       ELSE /\ dirs' = dirs \cup {output_dir_of(image_path)}
            /\ cmd' = audiveris_cmd(version, audiveris_path, image_path)
            /\ launched' = launched + 1
            /\ pc' = "subprocess"
            /\ UNCHANGED err
  /\ UNCHANGED <<env, harness, audiveris_path, searched, output_path, files, proc,
                 omr_file, symbols, branch, returned, summary, log>>

\* the output file _run_audiveris looks for after the process
found_omr_file(ver, image, fs) ==
  IF ver = 1
    THEN IF project_file(image, S_dot_mxl) \in DOMAIN fs
           THEN project_file(image, S_dot_mxl)
         ELSE IF project_file(image, S_dot_xml) \in DOMAIN fs
           THEN project_file(image, S_dot_xml)
         ELSE None
    ELSE IF omr_file_v2(image) \in DOMAIN fs THEN omr_file_v2(image) ELSE None

\* variant: TimeoutExpired not turned into RuntimeError
run_fails_ignoring_timeout(ver, outcome, found) ==
  \/ ver = 1 /\ outcome.state = "exited" /\ outcome.returncode # 0
  \/ found = None

\* whether _run_audiveris raises RuntimeError after subprocess.run
run_fails(ver, outcome, found) ==
  \/ outcome.state = "timeout"
  \/ ver = 1 /\ outcome.returncode # 0
  \/ found = None

\* the recognizer process ends; the rest of _run_audiveris
AudiverisExit ==
  /\ pc = "subprocess"
  /\ \E outcome \in ProcOutcomes, out \in RecognizerOutputs(version, image_path) :
       /\ proc' = outcome
       /\ files' = WriteAll(files, out)
       /\ LET found == found_omr_file(version, image_path, files')
          IN  IF run_fails(version, outcome, found)
                THEN /\ err' = "RuntimeError"
                     /\ pc' = "failed"
                     /\ UNCHANGED <<omr_file, log>>
                ELSE /\ omr_file' = found
                     /\ pc' = step_after("run_audiveris")
                     /\ log' = Append(log, "run_audiveris")
                     /\ UNCHANGED err
  /\ UNCHANGED <<env, harness, audiveris_path, searched, output_path, dirs, cmd, launched,
                 symbols, branch, returned, summary>>

\* what the parse step of the version returns for the files on disk
parse_step(ver, fs, file) ==
  IF ver = 1
    THEN LET book == book_file_of(file)
         IN  parse_omr_output(fs[file], book \in DOMAIN fs,
                              IF book \in DOMAIN fs THEN fs[book] ELSE <<>>)
    ELSE [symbols |-> parse_omr_file(fs[file]), branch |-> "omr"]

\* symbols = self._parse_omr_output(omr_file) / self._parse_omr_file(omr_file)
Parse ==
  /\ pc = "parse"
  /\ LET r == parse_step(version, files, omr_file)
     IN  /\ symbols' = r.symbols
         /\ branch' = r.branch
  /\ pc' = step_after("parse")
  /\ log' = Append(log, "parse")
  /\ UNCHANGED <<env, harness, audiveris_path, searched, output_path, files, dirs, cmd,
                 launched, proc, omr_file, err, returned, summary>>

\* variant: noteheads passed over by the drawing loop
drawn_symbols_accidentals_only(syms) ==
  SelectSeq(syms, LAMBDA sy : sy.type \in TARGET_SYMBOLS \ {"notehead"}
                                /\ Has(sy, "bbox") /\ sy.bbox # <<>>)

\* the records _draw_bounding_boxes does not skip
drawn_symbols(syms) ==
  SelectSeq(syms, LAMBDA sy : sy.type \in TARGET_SYMBOLS /\ Has(sy, "bbox") /\ sy.bbox # <<>>)

\* a box ImageDraw.rectangle rejects with ValueError since Pillow 9.5
\* ("x1 must be greater than or equal to x0"); older releases draw it
inverted(bbox) == bbox[3] < bbox[1] \/ bbox[4] < bbox[2]

\* the image after the rectangles and, in v2, the banner
draw_on(ver, img, syms) ==
  [kind |-> "image",
   boxes |-> img.boxes \o [k \in 1..Len(drawn_symbols(syms)) |->
                             [type |-> drawn_symbols(syms)[k].type,
                              bbox |-> drawn_symbols(syms)[k].bbox]],
   banners |-> IF ver = 2 THEN Append(img.banners, Len(syms)) ELSE img.banners]

\* _draw_bounding_boxes(image_path, symbols, output_path)
Draw ==
  /\ pc = "draw"
  /\ \/ /\ \E k \in 1..Len(drawn_symbols(symbols)) : inverted(drawn_symbols(symbols)[k].bbox)
        /\ err' = "ValueError"
        /\ pc' = "failed"
        /\ UNCHANGED <<files, log>>
     \/ /\ files' = WriteAll(files, {<<output_path, draw_on(version, files[image_path], symbols)>>})
        /\ pc' = step_after("draw")
        /\ log' = Append(log, "draw")
        /\ UNCHANGED err
  /\ UNCHANGED <<env, harness, audiveris_path, searched, output_path, dirs, cmd, launched,
                 proc, omr_file, symbols, branch, returned, summary>>

\* _print_summary: the types seen, each with its count
print_summary(syms) ==
  {<<t, Cardinality({k \in 1..Len(syms) : syms[k].type = t})>> :
     t \in {syms[k].type : k \in 1..Len(syms)}}

\* the prints after drawing, and return output_path
Return ==
  /\ pc = "return"
  /\ summary' = [total |-> Len(symbols), counts |-> print_summary(symbols)]
  /\ returned' = output_path
  /\ pc' = step_after("return")
  /\ log' = Append(log, "return")
  /\ UNCHANGED <<env, harness, audiveris_path, searched, output_path, files, dirs, cmd,
                 launched, proc, omr_file, symbols, branch, err>>

\* one run of the pipeline, the recognizer given by the caller or absent
Init ==
  /\ RunInit({1, 2}, {None, P_audiveris, P_jar}, {{}},
             {[raised |-> TRUE, returncode |-> 1, stdout |-> <<>>]},
             {P_png}, BOOLEAN)
  /\ HarnessIdle

Next ==
  \/ Construct
  \/ ProcessImage
  \/ StartAudiveris
  \/ AudiverisExit
  \/ Parse
  \/ Draw
  \/ Return

Spec == Init /\ [][Next]_vars

(***************************************************************************)
(* Locating the recognizer and assembling its command, over the            *)
(* environments the detector may be constructed in.                        *)
(***************************************************************************)
CtorArgs == {None, <<>>, P_audiveris, P_jar, P_jar_dir}

ImagePaths == {P_png, P_bare}

InitLocate ==
  /\ RunInit({1, 2}, CtorArgs,
             SUBSET {possible_paths[i] : i \in 1..Len(possible_paths)},
             WhichOutcomes, ImagePaths, BOOLEAN)
  /\ HarnessIdle

NextLocate ==
  \/ Construct
  \/ ProcessImage
  \/ StartAudiveris

SpecLocate == InitLocate /\ [][NextLocate]_vars

(***************************************************************************)
(* The output path: process_image on image paths of every form, and runs   *)
(* in which the caller may pass the image path itself as output path.      *)
(***************************************************************************)
\* process_image(image_path, image_path) up to the call of _run_audiveris
ProcessImageInPlace ==
  /\ pc = "constructed"
  /\ IF image_path \notin DOMAIN files
       THEN /\ err' = "FileNotFoundError"
            /\ pc' = "failed"
            /\ UNCHANGED output_path
       ELSE /\ output_path' = image_path
            /\ pc' = process_image_steps[1]
            /\ UNCHANGED err
  /\ UNCHANGED <<env, harness, audiveris_path, searched, files, dirs, cmd, launched, proc,
                 omr_file, symbols, branch, returned, summary, log>>

\* complete runs on two images; and, with no recognizer to be found, runs
\* that end in _run_audiveris on the image paths of every form
InitOutput ==
  /\ \/ RunInit({1, 2}, {P_audiveris}, {{}},
                {[raised |-> TRUE, returncode |-> 1, stdout |-> <<>>]},
                ImagePaths, BOOLEAN)
     \/ RunInit({1, 2}, {None}, {{}},
                {[raised |-> TRUE, returncode |-> 1, stdout |-> <<>>]},
                PathInputs, {TRUE})
  /\ HarnessIdle

NextOutput ==
  \/ Construct
  \/ ProcessImage
  \/ ProcessImageInPlace
  \/ StartAudiveris
  \/ AudiverisExit
  \/ Parse
  \/ Draw
  \/ Return

SpecOutput == InitOutput /\ [][NextOutput]_vars

(***************************************************************************)
(* The parsers as functions, applied to bounded inputs.                    *)
(***************************************************************************)
\* symbols as the MusicXML loop of _parse_omr_output leaves them
IntermediateSymbols == {[type |-> t, element |-> n] : t \in TARGET_SYMBOLS, n \in 1..2}

HarnessInputs ==
  {[fn |-> "estimate_positions", arg |-> [symbols |-> q]] :
     q \in SeqUpTo(IntermediateSymbols, MaxSymbols)}
  \cup {[fn |-> "classify_symbol", arg |-> [shape |-> l]] : l \in ShapeLabels}
  \cup {[fn |-> "parse_omr_book", arg |-> b] : b \in BookFiles}
  \cup {[fn |-> "parse_sheet_xml", arg |-> x] : x \in SheetXmls}
  \cup {[fn |-> "parse_omr_file", arg |-> a] : a \in OmrArchives}
  \cup {[fn |-> "parse_omr_output",
         arg |-> [musicxml |-> m, has_book |-> hb, book |-> b]] :
           m \in MusicXmlFiles, hb \in BOOLEAN,
           b \in {[kind |-> "book", wellformed |-> TRUE, inters |-> <<I_sharp, I_clef>>]}}

InitParse ==
  /\ RunInit({1}, {None}, {{}},
             {[raised |-> TRUE, returncode |-> 1, stdout |-> <<>>]},
             {P_png}, {TRUE})
  /\ p_input \in HarnessInputs
  /\ p_result = <<>>
  /\ p_done = FALSE

Apply_estimate_positions ==
  /\ ~p_done /\ p_input.fn = "estimate_positions"
  /\ p_result' = estimate_positions(p_input.arg.symbols)
  /\ p_done' = TRUE
  /\ UNCHANGED <<env, run, p_input>>

\* the label classified as v1 _parse_omr_book does it inline and as v2
\* _classify_symbol does it: <<v1 result, v2 result>>
Apply_classify_symbol ==
  /\ ~p_done /\ p_input.fn = "classify_symbol"
  /\ p_result' = <<book_symbol_type(p_input.arg.shape), classify_symbol(p_input.arg.shape)>>
  /\ p_done' = TRUE
  /\ UNCHANGED <<env, run, p_input>>

Apply_parse_omr_book ==
  /\ ~p_done /\ p_input.fn = "parse_omr_book"
  /\ p_result' = parse_omr_book(p_input.arg)
  /\ p_done' = TRUE
  /\ UNCHANGED <<env, run, p_input>>

Apply_parse_sheet_xml ==
  /\ ~p_done /\ p_input.fn = "parse_sheet_xml"
  /\ p_result' = parse_sheet_xml(p_input.arg)
  /\ p_done' = TRUE
  /\ UNCHANGED <<env, run, p_input>>

Apply_parse_omr_file ==
  /\ ~p_done /\ p_input.fn = "parse_omr_file"
  /\ p_result' = parse_omr_file(p_input.arg)
  /\ p_done' = TRUE
  /\ UNCHANGED <<env, run, p_input>>

Apply_parse_omr_output ==
  /\ ~p_done /\ p_input.fn = "parse_omr_output"
  /\ p_result' = parse_omr_output(p_input.arg.musicxml, p_input.arg.has_book,
                                  p_input.arg.book).symbols
  /\ p_done' = TRUE
  /\ UNCHANGED <<env, run, p_input>>

NextParse ==
  \/ Apply_estimate_positions
  \/ Apply_classify_symbol
  \/ Apply_parse_omr_book
  \/ Apply_parse_sheet_xml
  \/ Apply_parse_omr_file
  \/ Apply_parse_omr_output

SpecParse == InitParse /\ [][NextParse]_vars

(***************************************************************************)
(* Properties.                                                             *)
(***************************************************************************)
IsPrefix(a, b) == Len(a) <= Len(b) /\ SubSeq(b, 1, Len(a)) = a

\* C1: in both versions process_image runs recognizer -> parse -> draw ->
\* return in that order: parse starts only after _run_audiveris returned an
\* output file that exists, the annotated image is written only after the
\* parse step returned, and the output path is returned only after the image
\* was written.
C1_StepOrder ==
  /\ IsPrefix(log, <<"run_audiveris", "parse", "draw", "return">>)
  /\ pc = "parse" => log = <<"run_audiveris">> /\ omr_file # None /\ omr_file \in DOMAIN files
  /\ pc = "draw" => log = <<"run_audiveris", "parse">>
  /\ Len(log) >= 2 => omr_file # None
  /\ (output_path # None /\ output_path \in DOMAIN files) <=> Len(log) >= 3
  /\ returned # None =>
       /\ log = <<"run_audiveris", "parse", "draw", "return">>
       /\ returned = output_path
       /\ output_path \in DOMAIN files
  /\ returned = None => Len(log) < 4

\* a complete run that drew symbols and returned the output path
C1_Witness == pc = "done" /\ returned = output_path /\ symbols # <<>>

UniformRecord(r) ==
  /\ Has(r, "type") /\ r.type \in {"sharp", "flat", "natural", "notehead"}
  /\ Has(r, "bbox") /\ DOMAIN r.bbox = 1..4 /\ \A i \in 1..4 : r.bbox[i] \in Int
  /\ ~Has(r, "element")

\* C2: every record the parse step hands to the draw step, on every path of
\* v1 _parse_omr_output and v2 _parse_omr_file, has a type among sharp, flat,
\* natural, notehead and a bbox of four integers, and none carries the
\* intermediate 'element' reference.
C2_UniformRecords == \A k \in 1..Len(symbols) : UniformRecord(symbols[k])

\* v1 reaches the draw step with records from the estimate fallback
C2_Witness == pc = "draw" /\ version = 1 /\ branch = "estimated" /\ symbols # <<>>

\* C3: every bbox the parsers emit has bbox[0] <= bbox[2] and
\* bbox[1] <= bbox[3], whatever integer x, y, w, h the <bounds> element has.
C3_AxisAligned ==
  \A k \in 1..Len(symbols) :
    symbols[k].bbox[1] <= symbols[k].bbox[3] /\ symbols[k].bbox[2] <= symbols[k].bbox[4]

\* C4: the parse step never propagates a failure, so once _run_audiveris has
\* returned an output file process_image raises nothing and the output image
\* is written.
C4_WrittenOnceRecognized ==
  /\ omr_file # None => err = "none"
  /\ omr_file # None /\ pc \in {"return", "done"} => output_path \in DOMAIN files

CountType(syms, t) == Cardinality({k \in 1..Len(syms) : syms[k].type = t})

\* C5: _estimate_positions returns one record per input symbol, in the same
\* order and with the same type; the i-th (from 0) has bbox
\* (100 + 50 i, 100, 120 + 50 i, 120) and estimated = True; the number of
\* records and the count per type are those of the input.
C5_EstimatePositions ==
  (p_done /\ p_input.fn = "estimate_positions") =>
    LET given == p_input.arg.symbols
    IN  /\ Len(p_result) = Len(given)
        /\ \A k \in 1..Len(given) :
             /\ p_result[k].type = given[k].type
             /\ p_result[k].bbox = <<100 + 50 * (k - 1), 100, 120 + 50 * (k - 1), 120>>
             /\ p_result[k].estimated = TRUE
        /\ \A t \in {"sharp", "flat", "natural", "notehead"} :
             CountType(p_result, t) = CountType(given, t)

\* three symbols estimated, the third at x = 200
C5_Witness ==
  /\ p_done /\ p_input.fn = "estimate_positions"
  /\ Len(p_result) = 3
  /\ p_result[3].bbox = <<200, 100, 220, 120>>
  /\ p_input.arg.symbols[1].type # p_input.arg.symbols[3].type

\* the output file _run_audiveris expects for the image d/s.png
ExpectedOutputMissing ==
  IF version = 1
    THEN /\ <<"d","/","a","u","d","i","v","e","r","i","s","_","o","u","t","p","u","t","/","s","/","s",".","m","x","l">> \notin DOMAIN files
         /\ <<"d","/","a","u","d","i","v","e","r","i","s","_","o","u","t","p","u","t","/","s","/","s",".","x","m","l">> \notin DOMAIN files
    ELSE <<"d","/","a","u","d","i","v","e","r","i","s","_","o","u","t","p","u","t","/","s",".","o","m","r">> \notin DOMAIN files

\* C6: a failure before the draw step aborts the run.  A missing image raises
\* FileNotFoundError before the output directory is made and before a
\* recognizer process is started; no recognizer path, a timeout, or a missing
\* output file make _run_audiveris raise RuntimeError; in all these cases no
\* parse, no draw and no annotated image.
C6_AbortBeforeDraw ==
  /\ (image_path \notin DOMAIN files /\ pc \notin {"new", "constructed"}) =>
       pc = "failed" /\ err = "FileNotFoundError"
  /\ err = "FileNotFoundError" => dirs = {} /\ launched = 0 /\ cmd = <<>>
  /\ (~Truthy(audiveris_path) /\ pc \notin {"new", "constructed", "run_audiveris"}) =>
       pc = "failed" /\ err \in {"FileNotFoundError", "RuntimeError"} /\ launched = 0
  /\ proc.state = "timeout" => pc = "failed" /\ err = "RuntimeError"
  /\ (proc.state = "exited" /\ ExpectedOutputMissing) =>
       pc = "failed" /\ err = "RuntimeError"
  /\ err \in {"FileNotFoundError", "RuntimeError"} =>
       /\ pc = "failed"
       /\ log = <<>> /\ symbols = <<>> /\ branch = "none" /\ returned = None
       /\ \A q \in DOMAIN files :
            files[q].kind = "image" => q = image_path /\ files[q] = BlankImage

\* the recognizer timed out after leaving files in audiveris_output
C6_Witness ==
  /\ pc = "failed" /\ err = "RuntimeError"
  /\ proc.state = "timeout"
  /\ Cardinality(DOMAIN files) > 1

\* what `which` printed, without the line end
PrintedPath(out) ==
  IF out # <<>> /\ out[Len(out)] = "\n" THEN SubSeq(out, 1, Len(out) - 1) ELSE out

\* C7: v1: a non-empty constructor path is used unchanged and no discovery
\* runs; otherwise the path is the first existing candidate in list order,
\* else what a successful `which audiveris` printed, else None; None is no
\* error at construction and surfaces as RuntimeError in _run_audiveris.
C7_LocateRecognizer ==
  (version = 1 /\ pc # "new") =>
    /\ Truthy(ctor_arg) => audiveris_path = ctor_arg /\ ~searched
    /\ ~Truthy(ctor_arg) =>
         /\ searched
         /\ audiveris_path =
              IF Cand_app \in existing THEN Cand_app
              ELSE IF Cand_usr_local \in existing THEN Cand_usr_local
              ELSE IF Cand_relative \in existing THEN Cand_relative
              ELSE IF Cand_home_jar \in existing THEN Cand_home_jar
              ELSE IF ~which.raised /\ which.returncode = 0 THEN PrintedPath(which.stdout)
              ELSE None
    /\ pc = "constructed" => err = "none"
    /\ (audiveris_path = None /\ pc \notin {"constructed", "run_audiveris"}) =>
         /\ pc = "failed" /\ launched = 0
         /\ image_path \in DOMAIN files => err = "RuntimeError"

\* two candidates exist and the earlier one of the list was taken
C7_Witness ==
  /\ version = 1 /\ ctor_arg = None /\ pc = "subprocess"
  /\ existing = {Cand_usr_local, Cand_home_jar}
  /\ audiveris_path = Cand_usr_local

\* str(output_dir) for the image paths of the model
ExpectedOutputDir ==
  IF image_path = <<"d","/","s",".","p","n","g">> THEN <<"d","/","a","u","d","i","v","e","r","i","s","_","o","u","t","p","u","t">> ELSE <<"a","u","d","i","v","e","r","i","s","_","o","u","t","p","u","t">>

\* C8: v1: the command ends with -batch, -export, -output,
\* <image dir>/audiveris_output, <image path>; before them stand
\* java -jar <path> exactly when the path ends in '.jar', and the path alone
\* otherwise.
C8_CommandAssembly ==
  (version = 1 /\ cmd # <<>>) =>
    LET n == Len(cmd)
        path == audiveris_path
        jar == Len(path) >= 4 /\ SubSeq(path, Len(path) - 3, Len(path)) = <<".","j","a","r">>
    IN  /\ n >= 6
        /\ SubSeq(cmd, n - 4, n) =
             <<<<"-","b","a","t","c","h">>, <<"-","e","x","p","o","r","t">>, <<"-","o","u","t","p","u","t">>, ExpectedOutputDir, image_path>>
        /\ jar => SubSeq(cmd, 1, n - 5) = <<<<"j","a","v","a">>, <<"-","j","a","r">>, path>>
        /\ ~jar => SubSeq(cmd, 1, n - 5) = <<path>>

\* the discovered jar of the home directory is run through java
C8_Witness ==
  /\ version = 1 /\ audiveris_path = Cand_home_jar
  /\ cmd # <<>> /\ cmd[1] = <<"j","a","v","a">> /\ Len(cmd) = 8

\* a <note> on which the MusicXML loop raises
NoteRaises(note) ==
  \/ /\ Has(note, "pitch") /\ Has(note.pitch, "alter")
     /\ (~Has(note.pitch.alter, "text") \/ ~float_of(note.pitch.alter.text).ok)
  \/ Has(note, "accidental") /\ ~Has(note.accidental, "text")

\* C9: v1 _parse_omr_output: the estimated positions are returned exactly
\* when the MusicXML file is read without error and there is no book file
\* next to it; with a book file the records are those of the book file alone,
\* also when it yields none; when reading the MusicXML raises the result is
\* the empty list of _parse_alternative.
C9_FallbackSelection ==
  (version = 1 /\ Len(log) >= 2) =>
    LET mx == files[omr_file]
        book == <<"d","/","a","u","d","i","v","e","r","i","s","_","o","u","t","p","u","t","/","s","/","s",".","o","m","r">>
        readable == mx.wellformed /\ \A n \in 1..Len(mx.notes) : ~NoteRaises(mx.notes[n])
    IN  /\ branch = "estimated" <=> (readable /\ book \notin DOMAIN files)
        /\ branch = "estimated" => \A k \in 1..Len(symbols) : Has(symbols[k], "estimated")
        /\ (readable /\ book \in DOMAIN files) =>
             /\ branch = "book"
             /\ symbols = parse_omr_book(files[book])
             /\ \A k \in 1..Len(symbols) : ~Has(symbols[k], "estimated")
        /\ ~readable => branch = "alternative" /\ symbols = <<>>

\* notes were read, and the book file that yields nothing replaced them
C9_Witness ==
  /\ version = 1 /\ pc = "done" /\ branch = "book" /\ symbols = <<>>
  /\ files[omr_file].notes # <<>>

\* the records of the elements of a loop that yield one, in order: what the
\* loop returns when the raising elements are left out
RecordsOf(outcomes) ==
  LET recs == SelectSeq(outcomes, LAMBDA o : o.kind = "record")
  IN  [k \in 1..Len(recs) |-> recs[k].rec]

\* the outcomes before the first raising element
BeforeRaise(outcomes) ==
  IF \E k \in 1..Len(outcomes) : outcomes[k].kind = "raise"
    THEN SubSeq(outcomes, 1,
                (CHOOSE k \in 1..Len(outcomes) :
                   /\ outcomes[k].kind = "raise"
                   /\ \A j \in 1..(k - 1) : outcomes[j].kind # "raise") - 1)
    ELSE outcomes

BookOutcomes(book_file) ==
  [k \in 1..Len(book_file.inters) |-> book_inter(book_file.inters[k])]

SheetOutcomes(sheet_xml) ==
  IF sheet_xml.wellformed /\ sheet_xml.inters_section
    THEN [k \in 1..Len(sheet_work(sheet_xml.elems)) |->
            sheet_elem(sheet_work(sheet_xml.elems)[k])]
    ELSE <<>>

\* the sheets of an archive one after the other, each cut at its first raise
RECURSIVE PartialSheets(_)
PartialSheets(sheet_dirs) ==
  IF sheet_dirs = <<>> THEN <<>>
  ELSE (IF Head(sheet_dirs).has_xml
          THEN RecordsOf(BeforeRaise(SheetOutcomes(Head(sheet_dirs).xml)))
          ELSE <<>>)
       \o PartialSheets(Tail(sheet_dirs))

\* C10: an exception on one element keeps the records appended before it
\* (v1 _parse_omr_book, v2 _parse_sheet_xml), and in v2 _parse_omr_file a
\* failing sheet keeps the records of the other sheets: the list returned is
\* the records before the first raising element, a prefix of the records of
\* the failure-free parse, sheet by sheet.
C10_PartialResults ==
  p_done =>
    /\ (p_input.fn = "parse_omr_book" /\ p_input.arg.wellformed) =>
         /\ p_result = RecordsOf(BeforeRaise(BookOutcomes(p_input.arg)))
         /\ IsPrefix(p_result, RecordsOf(BookOutcomes(p_input.arg)))
    /\ p_input.fn = "parse_sheet_xml" =>
         /\ p_result = RecordsOf(BeforeRaise(SheetOutcomes(p_input.arg)))
         /\ IsPrefix(p_result, RecordsOf(SheetOutcomes(p_input.arg)))
    /\ (p_input.fn = "parse_omr_file" /\ p_input.arg.readable) =>
         p_result = PartialSheets(p_input.arg.sheets)

\* a sheet that fails after one record, followed by a sheet with two
C10_Witness ==
  /\ p_done /\ p_input.fn = "parse_omr_file"
  /\ p_input.arg.sheets = <<D_partial, D_two>>
  /\ Len(p_result) = 3

\* the type the priority sharp > flat > natural > head gives a lower-cased
\* label, "None" when it contains no keyword
PriorityType(lowered) ==
  LET keys == <<<<"s","h","a","r","p">>, <<"f","l","a","t">>,
                <<"n","a","t","u","r","a","l">>, <<"h","e","a","d">>>>
      types == <<"sharp", "flat", "natural", "notehead">>
      hits == {k \in 1..4 :
                 \E i \in 0..(Len(lowered) - Len(keys[k])) :
                   SubSeq(lowered, i + 1, i + Len(keys[k])) = keys[k]}
  IN  IF hits = {} THEN "None"
      ELSE types[CHOOSE k \in hits : \A j \in hits : k <= j]

\* C11: for every shape label the inline classification of v1
\* _parse_omr_book and v2 _classify_symbol give the same result: sharp if the
\* lower-cased label contains 'sharp', else flat if it contains 'flat', else
\* natural if it contains 'natural', else notehead if it contains 'head',
\* else no type; a label has one result.
C11_SameClassification ==
  (p_done /\ p_input.fn = "classify_symbol") =>
    /\ Len(p_result) = 2
    /\ p_result[1] = p_result[2]
    /\ p_result[2] = PriorityType(lower(p_input.arg.shape))

\* a label with both 'flat' and 'sharp' in it, flat first, classified sharp
C11_Witness ==
  /\ p_done /\ p_input.fn = "classify_symbol"
  /\ p_input.arg.shape = <<"f","l","a","t","S","H","A","R","P">>
  /\ p_result = <<"sharp", "sharp">>

\* C12: in both versions a recognizer process that exits with a non-zero
\* return code makes process_image fail: no recognizer output file is parsed,
\* also not one that is present in audiveris_output, and no output image is
\* written.
C12_NonZeroExitAborts ==
  (proc.state = "exited" /\ proc.returncode # 0) =>
    /\ pc = "failed" /\ err = "RuntimeError"
    /\ log = <<>> /\ symbols = <<>> /\ branch = "none"
    /\ output_path \notin DOMAIN files

\* the label contains the word as it is written
HasWord(label, word) ==
  \E i \in 0..(Len(label) - Len(word)) : SubSeq(label, i + 1, i + Len(word)) = word

UpperCaseAccidental(label) ==
  \/ HasWord(label, <<"S","H","A","R","P">>)
  \/ HasWord(label, <<"F","L","A","T">>)
  \/ HasWord(label, <<"N","A","T","U","R","A","L">>)

LabelOf(e) == IF Has(e, "shape") THEN e.shape ELSE <<>>

\* the elements of a sheet that the claim counts
CountedElems(elems) ==
  {k \in 1..Len(elems) :
     /\ Has(elems[k], "bounds")
     /\ \/ elems[k].tag = "head"
        \/ elems[k].tag = "key-alter" /\ PriorityType(lower(LabelOf(elems[k]))) # "None"
        \/ elems[k].tag = "inter" /\ UpperCaseAccidental(LabelOf(elems[k]))}

\* C13: v2 _parse_sheet_xml, no exception raised: the number of records is
\* the number of <head> elements with <bounds>, plus the <key-alter>
\* elements with <bounds> whose shape classifies, plus the <inter> elements
\* with <bounds> whose shape contains SHARP, FLAT or NATURAL in upper case;
\* no element gives more than one record, none without <bounds> gives one,
\* and a shape passing the upper-case filter always classifies.
C13_SheetRecordCount ==
  /\ (p_done /\ p_input.fn = "parse_sheet_xml"
        /\ p_input.arg.wellformed /\ p_input.arg.inters_section
        /\ \A k \in 1..Len(SheetOutcomes(p_input.arg)) :
             SheetOutcomes(p_input.arg)[k].kind # "raise") =>
       LET elems == p_input.arg.elems
       IN  /\ Len(p_result) = Cardinality(CountedElems(elems))
           /\ Len(p_result) <= Len(elems)
           /\ (\A k \in 1..Len(elems) : ~Has(elems[k], "bounds")) => p_result = <<>>
           /\ \A k \in 1..Len(elems) :
                (elems[k].tag = "inter" /\ UpperCaseAccidental(LabelOf(elems[k]))) =>
                  classify_symbol(LabelOf(elems[k])) # "None"
  /\ (p_done /\ p_input.fn = "classify_symbol" /\ UpperCaseAccidental(p_input.arg.shape)) =>
       p_result[2] \in {"sharp", "flat", "natural"}

\* a lower-case flat <inter> with <bounds> is passed over, the <head> after
\* it gives the one record
C13_Witness ==
  /\ p_done /\ p_input.fn = "parse_sheet_xml"
  /\ p_input.arg.elems =
       <<[tag |-> "inter", shape |-> <<"f","l","a","t">>, bounds |-> B_neg_h],
         [tag |-> "head", shape |-> L_NOTEHEAD_BLACK, bounds |-> B_full]>>
  /\ Len(p_result) = 1 /\ p_result[1].type = "notehead"

\* the sum of the per-type counts _print_summary prints
RECURSIVE SumCounts(_)
SumCounts(counts) ==
  IF counts = {} THEN 0
  ELSE LET c == CHOOSE x \in counts : TRUE
       IN  c[2] + SumCounts(counts \ {c})

\* C14: the draw step skips no record of a list the parse step produced, so
\* the number of boxes on the output image equals the number of symbols, and
\* with it the count of the v2 banner, the printed total and the sum of the
\* per-type counts of _print_summary.
C14_CountEqualsBoxes ==
  /\ pc = "draw" =>
       \A k \in 1..Len(symbols) :
         /\ symbols[k].type \in {"sharp", "flat", "natural", "notehead"}
         /\ "bbox" \in DOMAIN symbols[k] /\ Len(symbols[k].bbox) = 4
  /\ Len(log) >= 3 =>
       LET img == files[output_path]
       IN  /\ Len(img.boxes) = Len(symbols)
           /\ \A k \in 1..Len(symbols) :
                img.boxes[k] = [type |-> symbols[k].type, bbox |-> symbols[k].bbox]
           /\ version = 2 => img.banners = <<Len(img.boxes)>>
           /\ version = 1 => img.banners = <<>>
  /\ pc = "done" =>
       /\ summary.total = Len(files[output_path].boxes)
       /\ SumCounts(summary.counts) = Len(files[output_path].boxes)
       /\ \A c \in summary.counts :
            c[2] = Cardinality({k \in 1..Len(files[output_path].boxes) :
                                  files[output_path].boxes[k].type = c[1]})

\* v2 drew a sharp and a notehead, the banner and the summary say 2
C14_Witness ==
  /\ pc = "done" /\ version = 2
  /\ Len(files[output_path].boxes) = 2
  /\ files[output_path].banners = <<2>>
  /\ summary.total = 2
  /\ summary.counts = {<<"sharp", 1>>, <<"notehead", 1>>}

\* C15: with no output path given process_image writes to
\* <image dir>/<stem>_detected<suffix>; that path differs from the image
\* path whatever the image path is, so the draw step leaves the image file as
\* it was; the image file changes only in a run whose output path is the
\* image path, which only an explicit argument makes it.
C15_DefaultOutputElsewhere ==
  LET given == default_output_path(image_path)
  IN  /\ given # image_path
      /\ path_parent(given) = path_parent(image_path)
      /\ path_name(given) =
           path_stem(image_path) \o <<"_","d","e","t","e","c","t","e","d">>
             \o path_suffix(image_path)
      /\ path_stem(image_path) \o path_suffix(image_path) = path_name(image_path)
      /\ output_path # None =>
           output_path \in {given, image_path, <<"d","/","o",".","p","n","g">>}
      /\ (image_path \in DOMAIN files /\ output_path # image_path) =>
           files[image_path] = [kind |-> "image", boxes |-> <<>>, banners |-> <<>>]
      /\ (output_path = given /\ Len(log) >= 3) =>
           /\ files[given].kind = "image"
           /\ Len(files[given].boxes) = Len(symbols)
      /\ (image_path \in DOMAIN files
            /\ files[image_path] # [kind |-> "image", boxes |-> <<>>, banners |-> <<>>]) =>
           output_path = image_path /\ Len(log) >= 3

\* the image "scan" annotated into "scan_detected", itself as it was
C15_Witness ==
  /\ pc = "done" /\ image_path = <<"s","c","a","n">>
  /\ returned = <<"s","c","a","n","_","d","e","t","e","c","t","e","d">>
  /\ files[returned].boxes # <<>>
  /\ files[image_path].boxes = <<>>

====
